---- MODULE Spec2Model ----
(***************************************************************************)
(* Thermal guard of the hardware monitor: the in-memory ThermalConfig      *)
(* singleton, checkAndTriggerShutdown (evaluate), the POST (update) and    *)
(* DELETE (cancel) handlers of the thermal-shutdown route, and the OS       *)
(* shutdown scheduler that the handlers drive through `shutdown /s` and     *)
(* `shutdown /a`; and the poll of the system route that feeds the guard:    *)
(* the native temperature read, readTempsViaDll with its tempCache, the WMI *)
(* fallback and the resolution of the three temperatures handed to          *)
(* checkAndTriggerShutdown.                                                 *)
(*                                                                         *)
(* An async handler is modelled as the steps between its awaits: the       *)
(* synchronous prefix up to the `await execAsync(...)`, the execution of    *)
(* the spawned command by the OS, and the continuation after the await.     *)
(***************************************************************************)
EXTENDS Integers, Sequences, FiniteSets, TLC

VARIABLES
    config,   \* globalThis.__thermalConfig
    now,      \* Date.now()
    os,       \* the shutdown the OS has scheduled, or NoShutdown
    calls,    \* handler invocations suspended on their external command
    last,     \* the most recent step, its inputs and its outcome
    history,  \* "cleared": a cancel has cleared an incident and no trigger has
              \* happened since; "rearmed": the latest trigger followed such a
              \* cancel; "none": no incident has been cleared yet
    tempCache, \* the tempCache of the system route
    polls,    \* GET invocations of the system route suspended on a sensor read
    resolved, \* what each source gave to the poll that has just called
              \* checkAndTriggerShutdown, or NoSources
    read      \* what readTempsViaDll did in the most recent step: "cached",
              \* "spawned", "retry", "ok", "empty", "garbled", "failed", or "none"

vars == <<config, now, os, calls, last, history, tempCache, polls, resolved, read>>

\* the state of the system route
sensorVars == <<tempCache, polls, resolved, read>>

----------------------------------------------------------------------------
(* Bounds of the model *)

MaxCalls == 2   \* handler invocations that may be suspended at the same time
MaxTime == 1    \* ms that pass, and times the cache's time to live passes
MaxPolls == 2   \* GET invocations that may be suspended at the same time

----------------------------------------------------------------------------
(* Values *)

\* JavaScript null, for a temperature, a timestamp and (as a string) a tag
null == -1
nullStr == "null"

\* JavaScript numbers are counted in halves, so that a number that is not an
\* integer has a value too: N(80) is 80, Half(10) is 10.5
N(n) == n * 2
Half(n) == n * 2 + 1
IsInteger(x) == x % 2 = 0

\* Date.now() when the module is loaded, in ms (any time later than 1970 plus
\* the cache's time to live)
Epoch == 10000

\* const CACHE_TTL_MS
CACHE_TTL_MS == 2500

Idle == [kind |-> "idle"]
IdlePoll == [pc |-> "idle"]
NoTemps == [cpu |-> null, gpu |-> null, mb |-> null]
NoSources == [poll |-> FALSE]
NoShutdown == [by |-> "none", delay |-> 0]

\* a JSON value of a request body: what typeof tells of it, and the value
Undefined == [t |-> "undefined", v |-> 0]
Bool(b) == [t |-> "boolean", v |-> b]
Num(n) == [t |-> "number", v |-> n]
Str(s) == [t |-> "string", v |-> s]
NullValue == [t |-> "object", v |-> 0]

EmptyBody ==
    [enabled |-> Undefined, cpuThreshold |-> Undefined, gpuThreshold |-> Undefined,
     mbThreshold |-> Undefined, shutdownDelay |-> Undefined]

\* a body request.json() rejects, and the JSON value null (whose fields cannot be read)
Malformed == [malformed |-> TRUE]
JsonNull == [jsonNull |-> TRUE]

----------------------------------------------------------------------------
(* ThermalConfig *)

\* the defaults with the guard armed from the start
defaultConfigEnabled ==
    [enabled |-> TRUE,
     cpuThreshold |-> N(80),
     gpuThreshold |-> N(85),
     mbThreshold |-> N(75),
     shutdownDelay |-> N(60),
     triggered |-> FALSE,
     triggeredAt |-> null,
     triggeredBy |-> nullStr,
     triggeredTemp |-> null]

\* const defaultConfig
defaultConfig ==
    [enabled |-> FALSE,
     cpuThreshold |-> N(80),
     gpuThreshold |-> N(85),
     mbThreshold |-> N(75),
     shutdownDelay |-> N(60),
     triggered |-> FALSE,
     triggeredAt |-> null,
     triggeredBy |-> nullStr,
     triggeredTemp |-> null]

\* setConfig: { ...getConfig(), ...partial }
setConfig(cfg, partial) ==
    [f \in DOMAIN cfg |-> IF f \in DOMAIN partial THEN partial[f] ELSE cfg[f]]

----------------------------------------------------------------------------
(* checkAndTriggerShutdown: the threshold tests *)

\* the comparison made exclusive
TrippedStrict(temp, threshold) == temp # null /\ temp > threshold

\* an absent metric counted as tripped
TrippedWhenAbsent(temp, threshold) == temp = null \/ temp >= threshold

\* temp !== null && temp >= threshold
Tripped(temp, threshold) == temp # null /\ temp >= threshold

\* the tag of a later metric replacing the tags before it
AppendTagOverwrites(reason, tag) == tag

\* reason ? reason + '+tag' : 'tag'
AppendTag(reason, tag) == IF reason # "" THEN reason \o "+" \o tag ELSE tag

\* the three if-blocks, in order; each overwrites triggerTemp
CheckThresholds(cfg, cpuTemp, gpuTemp, mbTemp) ==
    LET s0 == [shouldShutdown |-> FALSE, reason |-> "", triggerTemp |-> 0]
        s1 == IF Tripped(cpuTemp, cfg.cpuThreshold)
              THEN [shouldShutdown |-> TRUE, reason |-> "cpu", triggerTemp |-> cpuTemp]
              ELSE s0
        s2 == IF Tripped(gpuTemp, cfg.gpuThreshold)
              THEN [shouldShutdown |-> TRUE, reason |-> AppendTag(s1.reason, "gpu"),
                    triggerTemp |-> gpuTemp]
              ELSE s1
        s3 == IF Tripped(mbTemp, cfg.mbThreshold)
              THEN [shouldShutdown |-> TRUE, reason |-> AppendTag(s2.reason, "mb"),
                    triggerTemp |-> mbTemp]
              ELSE s2
    IN s3

\* reason.includes('cpu'), over the reasons CheckThresholds can build
IncludesCpu(reason) == reason \in {"cpu", "cpu+gpu", "cpu+mb", "cpu+gpu+mb"}

\* the /c message of the shutdown command: the numbers it quotes
ShutdownMessage(cfg, reason, triggerTemp) ==
    [reason |-> reason,
     temp |-> triggerTemp,
     threshold |-> IF IncludesCpu(reason) THEN cfg.cpuThreshold ELSE cfg.gpuThreshold,
     delay |-> cfg.shutdownDelay]

NoMessage == [reason |-> "", temp |-> 0, threshold |-> 0, delay |-> 0]

\* the early return without its test of config.triggered
GuardIgnoresTriggered(cfg) == ~cfg.enabled

\* the early return without its test of config.enabled
GuardIgnoresEnabled(cfg) == cfg.triggered

\* the early return with the negation of config.enabled lost
GuardReturnsWhenEnabled(cfg) == cfg.enabled \/ cfg.triggered

\* if (!config.enabled || config.triggered) return;
GuardReturnsEarly(cfg) == ~cfg.enabled \/ cfg.triggered

----------------------------------------------------------------------------
(* Suspended handler invocations *)

FreeSlots == {i \in 1..MaxCalls : calls[i] = Idle}
FirstFree == CHOOSE i \in FreeSlots : \A j \in FreeSlots : i <= j

\* `shutdown /s /t <delay> /c <message>` spawned by checkAndTriggerShutdown
ShutdownCall(cfg, reason, triggerTemp) ==
    [kind |-> "evaluate", pc |-> "cmd", result |-> "none",
     delay |-> cfg.shutdownDelay,
     message |-> ShutdownMessage(cfg, reason, triggerTemp)]

\* `shutdown /a` spawned by DELETE
AbortCall ==
    [kind |-> "cancel", pc |-> "cmd", result |-> "none",
     delay |-> 0, message |-> NoMessage]

\* a step and what it answered: status is the HTTP status or the state of the
\* promise, cmd the outcome of the external command the step ran or resumed
\* from, wasTriggered the triggered flag the step found
Op(op, status, cmd, wasTriggered) ==
    [op |-> op, cpu |-> null, gpu |-> null, mb |-> null, issued |-> FALSE,
     status |-> status, cmd |-> cmd, wasTriggered |-> wasTriggered,
     body |-> EmptyBody]

\* an update step: the body it was sent
UpdateOp(body, status, wasTriggered) ==
    [Op("update", status, "none", wasTriggered) EXCEPT !.body = body]

\* an evaluate step: its snapshot, and whether it spawned a shutdown command
EvaluateOp(cpuTemp, gpuTemp, mbTemp, issued, wasTriggered) ==
    [op |-> "evaluate", cpu |-> cpuTemp, gpu |-> gpuTemp, mb |-> mbTemp,
     issued |-> issued, status |-> IF issued THEN "pending" ELSE "resolved",
     cmd |-> "none", wasTriggered |-> wasTriggered, body |-> EmptyBody]

----------------------------------------------------------------------------
(* Initial state: the module has just been loaded *)

Init ==
    /\ config = defaultConfig
    /\ now = Epoch
    /\ os = NoShutdown
    /\ calls = [i \in 1..MaxCalls |-> Idle]
    /\ last = Op("init", "none", "none", FALSE)
    /\ history = "none"
    /\ tempCache = [cpu |-> null, gpu |-> null, mb |-> null, ts |-> 0]
    /\ polls = [i \in 1..MaxPolls |-> IdlePoll]
    /\ resolved = NoSources
    /\ read = "none"

----------------------------------------------------------------------------
(* Actions *)

\* time passes
Tick ==
    /\ now < Epoch + MaxTime
    /\ now' = now + 1
    /\ last' = Op("tick", "none", "none", config.triggered)
    /\ UNCHANGED <<config, os, calls, history>>

\* the incident recorded only after the await: nothing is set at the spawn
EvaluateFlagAfterAwait(cpuTemp, gpuTemp, mbTemp) ==
    LET cfg == config
        r == CheckThresholds(cfg, cpuTemp, gpuTemp, mbTemp)
    IN  IF GuardReturnsEarly(cfg) \/ ~r.shouldShutdown
        THEN /\ last' = EvaluateOp(cpuTemp, gpuTemp, mbTemp, FALSE, cfg.triggered)
             /\ UNCHANGED <<config, now, os, calls, history>>
        ELSE /\ FreeSlots # {}
             /\ calls' = [calls EXCEPT ![FirstFree] =
                             ShutdownCall(cfg, r.reason, r.triggerTemp)]
             /\ last' = EvaluateOp(cpuTemp, gpuTemp, mbTemp, TRUE, cfg.triggered)
             /\ UNCHANGED <<config, now, os, history>>

\* checkAndTriggerShutdown(cpuTemp, gpuTemp, mbTemp), up to its await
Evaluate(cpuTemp, gpuTemp, mbTemp) ==
    LET cfg == config
        r == CheckThresholds(cfg, cpuTemp, gpuTemp, mbTemp)
    IN  IF GuardReturnsEarly(cfg) \/ ~r.shouldShutdown
        THEN /\ last' = EvaluateOp(cpuTemp, gpuTemp, mbTemp, FALSE, cfg.triggered)
             /\ UNCHANGED <<config, now, os, calls, history>>
        ELSE /\ FreeSlots # {}
             /\ config' = setConfig(config,
                    [triggered |-> TRUE, triggeredAt |-> now,
                     triggeredBy |-> r.reason, triggeredTemp |-> r.triggerTemp])
             /\ calls' = [calls EXCEPT ![FirstFree] =
                             ShutdownCall(cfg, r.reason, r.triggerTemp)]
             /\ last' = EvaluateOp(cpuTemp, gpuTemp, mbTemp, TRUE, cfg.triggered)
             /\ history' = IF history = "cleared" THEN "rearmed" ELSE history
             /\ UNCHANGED <<now, os>>

\* the OS runs `shutdown /s`: it schedules the shutdown unless one is scheduled
\* already; the command can also fail for its own reasons (timeout, privileges)
RunShutdown(i, outcome) ==
    /\ calls[i].kind = "evaluate"
    /\ calls[i].pc = "cmd"
    /\ outcome = "ok" => os = NoShutdown
    /\ os' = IF outcome = "ok" THEN [by |-> "guard", delay |-> calls[i].delay] ELSE os
    /\ calls' = [calls EXCEPT ![i].pc = "ret", ![i].result = outcome]
    /\ last' = Op("os", "none", outcome, config.triggered)
    /\ UNCHANGED <<config, now, history>>

\* the OS runs `shutdown /a`: it aborts the scheduled shutdown, and fails when
\* none is scheduled
RunAbort(i, outcome) ==
    /\ calls[i].kind = "cancel"
    /\ calls[i].pc = "cmd"
    /\ outcome = "ok" => os # NoShutdown
    /\ os' = IF outcome = "ok" THEN NoShutdown ELSE os
    /\ calls' = [calls EXCEPT ![i].pc = "ret", ![i].result = outcome]
    /\ last' = Op("os", "none", outcome, config.triggered)
    /\ UNCHANGED <<config, now, history>>

\* the catch block resetting the incident so that the next poll tries again
EvaluateReturnRearms(i) ==
    /\ calls[i].kind = "evaluate"
    /\ calls[i].pc = "ret"
    /\ config' = IF calls[i].result = "err"
                 THEN setConfig(config, [triggered |-> FALSE, triggeredAt |-> null,
                                         triggeredBy |-> nullStr, triggeredTemp |-> null])
                 ELSE config
    /\ calls' = [calls EXCEPT ![i] = Idle]
    /\ last' = Op("evaluateDone", "resolved", calls[i].result, config.triggered)
    /\ UNCHANGED <<now, os, history>>

\* checkAndTriggerShutdown after its await: a log line on either outcome
EvaluateReturn(i) ==
    /\ calls[i].kind = "evaluate"
    /\ calls[i].pc = "ret"
    /\ calls' = [calls EXCEPT ![i] = Idle]
    /\ last' = Op("evaluateDone", "resolved", calls[i].result, config.triggered)
    /\ UNCHANGED <<config, now, os, history>>

\* the body spread into the config: every boolean or number of the body that
\* names a field of the config is stored
UpdatedConfigSpreadsBody(cfg, body) ==
    [f \in DOMAIN cfg |->
        IF f \in DOMAIN body /\ body[f].t \in {"boolean", "number"}
        THEN body[f].v ELSE cfg[f]]

\* the update made all-or-nothing: one unacceptable field rejects the body
UpdatedConfigAtomic(cfg, body) ==
    LET okT(v) == v.t = "undefined" \/ (v.t = "number" /\ v.v >= N(30) /\ v.v <= N(120))
        okD(v) == v.t = "undefined" \/ (v.t = "number" /\ v.v >= N(10) /\ v.v <= N(300))
        okE(v) == v.t \in {"undefined", "boolean"}
        take(f) == IF body[f].t = "undefined" THEN cfg[f] ELSE body[f].v
    IN  IF okE(body.enabled) /\ okT(body.cpuThreshold) /\ okT(body.gpuThreshold)
           /\ okT(body.mbThreshold) /\ okD(body.shutdownDelay)
        THEN [cfg EXCEPT !.enabled = take("enabled"),
                         !.cpuThreshold = take("cpuThreshold"),
                         !.gpuThreshold = take("gpuThreshold"),
                         !.mbThreshold = take("mbThreshold"),
                         !.shutdownDelay = take("shutdownDelay")]
        ELSE cfg

\* disabling the guard made to drop the incident
UpdatedConfigDisableClears(cfg, body) ==
    IF body.enabled.t = "boolean" /\ ~body.enabled.v
    THEN setConfig(cfg, [enabled |-> FALSE, triggered |-> FALSE, triggeredAt |-> null,
                         triggeredBy |-> nullStr, triggeredTemp |-> null])
    ELSE IF body.enabled.t = "boolean"
         THEN setConfig(cfg, [enabled |-> body.enabled.v]) ELSE cfg

\* POST: request.json(), then one setConfig per accepted field
UpdatedConfig(cfg, body) ==
    LET c1 == IF body.enabled.t = "boolean"
              THEN setConfig(cfg, [enabled |-> body.enabled.v]) ELSE cfg
        c2 == IF body.cpuThreshold.t = "number" /\ body.cpuThreshold.v >= N(30)
                 /\ body.cpuThreshold.v <= N(120)
              THEN setConfig(c1, [cpuThreshold |-> body.cpuThreshold.v]) ELSE c1
        c3 == IF body.gpuThreshold.t = "number" /\ body.gpuThreshold.v >= N(30)
                 /\ body.gpuThreshold.v <= N(120)
              THEN setConfig(c2, [gpuThreshold |-> body.gpuThreshold.v]) ELSE c2
        c4 == IF body.mbThreshold.t = "number" /\ body.mbThreshold.v >= N(30)
                 /\ body.mbThreshold.v <= N(120)
              THEN setConfig(c3, [mbThreshold |-> body.mbThreshold.v]) ELSE c3
        c5 == IF body.shutdownDelay.t = "number" /\ body.shutdownDelay.v >= N(10)
                 /\ body.shutdownDelay.v <= N(300)
              THEN setConfig(c4, [shutdownDelay |-> body.shutdownDelay.v]) ELSE c4
    IN c5

\* the fields of a null body read with optional chaining: an empty update
UpdateReadsNullBody(body) ==
    /\ last' = UpdateOp(body, IF body = Malformed THEN "400" ELSE "200",
                        config.triggered)
    /\ config' = IF body = Malformed \/ body = JsonNull
                 THEN config ELSE UpdatedConfig(config, body)
    /\ UNCHANGED <<now, os, calls, history>>

Update(body) ==
    /\ IF body = Malformed \/ body = JsonNull
       THEN /\ last' = UpdateOp(body, "400", config.triggered)
            /\ UNCHANGED config
       ELSE /\ config' = UpdatedConfig(config, body)
            /\ last' = UpdateOp(body, "200", config.triggered)
    /\ UNCHANGED <<now, os, calls, history>>

\* DELETE, up to its await: `shutdown /a` is spawned
CancelStart ==
    /\ FreeSlots # {}
    /\ calls' = [calls EXCEPT ![FirstFree] = AbortCall]
    /\ last' = Op("cancelStart", "pending", "none", config.triggered)
    /\ UNCHANGED <<config, now, os, history>>

\* the reset moved into the try block: skipped when `shutdown /a` fails
ClearedOnlyOnSuccess(cfg, result) ==
    IF result = "ok"
    THEN setConfig(cfg, [triggered |-> FALSE, triggeredAt |-> null,
                         triggeredBy |-> nullStr, triggeredTemp |-> null])
    ELSE cfg

\* the reset that forgets triggeredTemp
ClearedKeepsTemp(cfg, result) ==
    setConfig(cfg, [triggered |-> FALSE, triggeredAt |-> null,
                    triggeredBy |-> nullStr])

\* the reset without the triggered flag
ClearedKeepsFlag(cfg, result) ==
    setConfig(cfg, [triggeredAt |-> null, triggeredBy |-> nullStr,
                    triggeredTemp |-> null])

\* what DELETE does to the config after its await
ClearedConfig(cfg, result) ==
    setConfig(cfg, [triggered |-> FALSE, triggeredAt |-> null,
                    triggeredBy |-> nullStr, triggeredTemp |-> null])

\* DELETE after its await, on either outcome of the command
CancelReturn(i) ==
    /\ calls[i].kind = "cancel"
    /\ calls[i].pc = "ret"
    /\ config' = ClearedConfig(config, calls[i].result)
    /\ calls' = [calls EXCEPT ![i] = Idle]
    /\ last' = Op("cancel", "200", calls[i].result, config.triggered)
    /\ history' = IF config.triggered THEN "cleared" ELSE history
    /\ UNCHANGED <<now, os>>

\* a command the process had spawned, running on after the process has gone
Orphan(call) ==
    [call EXCEPT !.kind = IF call.kind = "evaluate" THEN "orphanShutdown"
                          ELSE "orphanAbort"]

\* the suspended invocations whose command the OS has not run yet
InFlight ==
    {i \in 1..MaxCalls : calls[i].kind \in {"evaluate", "cancel"} /\ calls[i].pc = "cmd"}

\* the config kept across the reload, as globalThis keeps it across a hot reload
RestartKeepsConfig ==
    /\ \E survivors \in SUBSET InFlight :
          calls' = [i \in 1..MaxCalls |->
                       IF i \in survivors THEN Orphan(calls[i]) ELSE Idle]
    /\ history' = "none"
    /\ last' = Op("restart", "none", "none", config.triggered)
    /\ tempCache' = [cpu |-> null, gpu |-> null, mb |-> null, ts |-> 0]
    /\ polls' = [i \in 1..MaxPolls |-> IdlePoll]
    /\ resolved' = NoSources
    /\ read' = "none"
    /\ UNCHANGED <<config, now, os>>

\* the process restarts: the module is loaded into a fresh globalThis, every
\* suspended handler is gone, and each command already spawned either dies
\* with the process or runs on; the OS keeps what it has scheduled
Restart ==
    /\ config' = defaultConfig
    /\ \E survivors \in SUBSET InFlight :
          calls' = [i \in 1..MaxCalls |->
                       IF i \in survivors THEN Orphan(calls[i]) ELSE Idle]
    /\ history' = "none"
    /\ last' = Op("restart", "none", "none", config.triggered)
    /\ tempCache' = [cpu |-> null, gpu |-> null, mb |-> null, ts |-> 0]
    /\ polls' = [i \in 1..MaxPolls |-> IdlePoll]
    /\ resolved' = NoSources
    /\ read' = "none"
    /\ UNCHANGED <<now, os>>

\* the OS runs a command whose process has gone: nobody reads its outcome
RunOrphan(i, outcome) ==
    /\ calls[i].kind \in {"orphanShutdown", "orphanAbort"}
    /\ calls[i].pc = "cmd"
    /\ IF calls[i].kind = "orphanShutdown"
       THEN /\ outcome = "ok" => os = NoShutdown
            /\ os' = IF outcome = "ok"
                     THEN [by |-> "guard", delay |-> calls[i].delay] ELSE os
       ELSE /\ outcome = "ok" => os # NoShutdown
            /\ os' = IF outcome = "ok" THEN NoShutdown ELSE os
    /\ calls' = [calls EXCEPT ![i] = Idle]
    /\ last' = Op("os", "none", outcome, config.triggered)
    /\ UNCHANGED <<config, now, history>>

----------------------------------------------------------------------------
(* The power route: POST with an action and a delay *)

\* a string as its characters, so that parseInt can read it
Text(cs) == [t |-> "string", v |-> cs]

Digits == <<"0", "1", "2", "3", "4", "5", "6", "7", "8", "9">>
IsDigit(c) == \E k \in 1..Len(Digits) : Digits[k] = c
DigitOf(c) == (CHOOSE k \in 1..Len(Digits) : Digits[k] = c) - 1

\* the number written by the digits at the head of cs, and how many they are
RECURSIVE DigitPrefix(_, _, _)
DigitPrefix(cs, n, count) ==
    IF cs # <<>> /\ IsDigit(Head(cs))
    THEN DigitPrefix(Tail(cs), n * 10 + DigitOf(Head(cs)), count + 1)
    ELSE [n |-> n, count |-> count]

\* parseInt: of a number, its integer part; of a string, the integer that an
\* optional sign and the digits at its head write; NaN of anything else
ParseInt(value) ==
    IF value.t = "number"
    THEN [nan |-> FALSE,
          v |-> IF value.v >= 0 THEN value.v \div 2 ELSE -((-value.v) \div 2)]
    ELSE IF value.t = "string"
    THEN LET neg == value.v # <<>> /\ Head(value.v) = "-"
             p == DigitPrefix(IF neg THEN Tail(value.v) ELSE value.v, 0, 0)
         IN  IF p.count = 0 THEN [nan |-> TRUE, v |-> 0]
             ELSE [nan |-> FALSE, v |-> IF neg THEN -p.n ELSE p.n]
    ELSE [nan |-> TRUE, v |-> 0]

\* Math.max(0, Math.min(300, parseInt(delay) || 10)), delay = 10 when undefined
SafeDelay(delay) ==
    LET p == ParseInt(IF delay.t = "undefined" THEN Num(N(10)) ELSE delay)
        q == IF p.nan \/ p.v = 0 THEN 10 ELSE p.v
        m == IF q < 300 THEN q ELSE 300
    IN  IF m > 0 THEN m ELSE 0

PowerKinds == {"powerShutdown", "powerReboot", "powerCancel"}

\* the command a power request spawns, with the request it answers
PowerCall(request, safeDelay) ==
    [kind |-> IF request.action = Str("shutdown") THEN "powerShutdown"
              ELSE IF request.action = Str("reboot") THEN "powerReboot"
              ELSE "powerCancel",
     pc |-> "cmd", result |-> "none",
     delay |-> IF request.action = Str("cancel") THEN 0 ELSE safeDelay,
     message |-> NoMessage, request |-> request]

\* a step of the power route: the request, the status, and success and delay
\* of the response body
PowerOp(request, status, cmd, success, delay) ==
    [op |-> "power", status |-> status, cmd |-> cmd,
     wasTriggered |-> config.triggered, request |-> request,
     success |-> success, delay |-> delay]

\* POST of the power route up to its await: the body is read, the delay
\* clamped and the command of the action spawned; an unknown action is
\* answered 400, a body that cannot be read 500
PowerStart(request) ==
    IF request = Malformed \/ request = JsonNull
    THEN /\ last' = PowerOp(request, "500", "none", FALSE, 0)
         /\ UNCHANGED <<config, now, os, calls, history>>
    ELSE IF request.action \in {Str("shutdown"), Str("reboot"), Str("cancel")}
    THEN /\ FreeSlots # {}
         /\ calls' = [calls EXCEPT ![FirstFree] =
                         PowerCall(request, SafeDelay(request.delay))]
         /\ last' = PowerOp(request, "pending", "none", FALSE, 0)
         /\ UNCHANGED <<config, now, os, history>>
    ELSE /\ last' = PowerOp(request, "400", "none", FALSE, 0)
         /\ UNCHANGED <<config, now, os, calls, history>>

\* the OS runs the command of a power request: `shutdown /s` and `shutdown /r`
\* schedule unless something is scheduled already; `shutdown /a` aborts
\* whatever is scheduled and is "unable to abort" when nothing is; any of
\* them can fail otherwise (timeout, privileges)
RunPower(i, outcome) ==
    /\ calls[i].kind \in PowerKinds
    /\ calls[i].pc = "cmd"
    /\ IF calls[i].kind = "powerCancel"
       THEN /\ outcome = "ok" => os # NoShutdown
            /\ outcome = "unable" => os = NoShutdown
            /\ os' = IF outcome = "ok" THEN NoShutdown ELSE os
       ELSE /\ outcome # "unable"
            /\ outcome = "ok" => os = NoShutdown
            /\ os' = IF outcome = "ok"
                     THEN [by |-> "power", delay |-> N(calls[i].delay)] ELSE os
    /\ calls' = [calls EXCEPT ![i].pc = "ret", ![i].result = outcome]
    /\ last' = Op("os", "none", outcome, config.triggered)
    /\ UNCHANGED <<config, now, history>>

\* the catch without its test for "Unable to abort"
PowerReturnEveryFailure500(i) ==
    /\ calls[i].kind \in PowerKinds
    /\ calls[i].pc = "ret"
    /\ calls' = [calls EXCEPT ![i] = Idle]
    /\ last' = IF calls[i].result = "ok"
               THEN PowerOp(calls[i].request, "200", "ok", TRUE, calls[i].delay)
               ELSE PowerOp(calls[i].request, "500", calls[i].result, FALSE, 0)
    /\ UNCHANGED <<config, now, os, history>>

\* POST of the power route after its await: the success response, or the catch
PowerReturn(i) ==
    /\ calls[i].kind \in PowerKinds
    /\ calls[i].pc = "ret"
    /\ calls' = [calls EXCEPT ![i] = Idle]
    /\ last' = IF calls[i].result = "ok"
               THEN PowerOp(calls[i].request, "200", "ok", TRUE, calls[i].delay)
               ELSE IF calls[i].result = "unable"
               THEN PowerOp(calls[i].request, "200", "unable", FALSE, 0)
               ELSE PowerOp(calls[i].request, "500", "err", FALSE, 0)
    /\ UNCHANGED <<config, now, os, history>>

----------------------------------------------------------------------------
(* The poll of the system route *)

\* what `x || ...` and `!x` take for a value: null and 0 are not one
Truthy(x) == x # null /\ x # 0

\* temp.main || temp.cores?.[0] || null
NativeCpu(temp) ==
    IF Truthy(temp.main) THEN temp.main
    ELSE IF Len(temp.cores) > 0 /\ Truthy(temp.cores[1]) THEN temp.cores[1]
    ELSE null

\* graphics.controllers.map(g => g.temperatureGpu || null)
NativeGpus(controllers) ==
    [k \in 1..Len(controllers) |->
        IF Truthy(controllers[k]) THEN controllers[k] ELSE null]

\* the test before the WMI read; every() of no controller is true
NeedsWmi(cpu, controllers, dll) ==
    /\ ~Truthy(dll.cpu)
    /\ ~Truthy(dll.gpu)
    /\ \/ cpu = null
       \/ \A k \in 1..Len(controllers) : NativeGpus(controllers)[k] = null

\* dllTemps after the two assignments from wmiTemps
MergeWmi(cpu, dll, wmi) ==
    [cpu |-> IF Truthy(wmi.cpu) /\ ~Truthy(cpu) THEN wmi.cpu ELSE dll.cpu,
     gpu |-> IF Truthy(wmi.gpu) THEN wmi.gpu ELSE dll.gpu,
     mb |-> dll.mb]

\* if (!resolvedCpuTemp && dllTemps.cpu) resolvedCpuTemp = dllTemps.cpu
ResolvedCpu(cpu, dll) == IF ~Truthy(cpu) /\ Truthy(dll.cpu) THEN dll.cpu ELSE cpu

\* g.temperatureGpu || dllTemps.gpu || null
GraphicsTemp(g, dll) ==
    IF Truthy(g) THEN g ELSE IF Truthy(dll.gpu) THEN dll.gpu ELSE null

\* the DLL's gpu value handed over instead of the first controller's
FinalGpuFromDll(controllers, dll) == dll.gpu

\* data.graphics[0]?.temperature ?? null
FinalGpu(controllers, dll) ==
    IF Len(controllers) = 0 THEN null ELSE GraphicsTemp(controllers[1], dll)

\* data.motherboard.temperature ?? null
FinalMb(dll) == dll.mb

\* the stdout of read_temps.ps1: nothing, text that is not JSON, or the JSON
EmptyOutput == [out |-> "empty"]
GarbledOutput == [out |-> "garbled"]
JsonOutput(c, g, m) == [out |-> "json", cpu_temp |-> c, gpu_temp |-> g, mb_temp |-> m]

FreePolls == {i \in 1..MaxPolls : polls[i] = IdlePoll}
FirstFreePoll == CHOOSE i \in FreePolls : \A j \in FreePolls : i <= j

\* the GET invocations waiting for read_temps.ps1
Refreshing(ps) == {i \in 1..MaxPolls : ps[i].pc \in {"ps64", "fallback"}}

\* the temperatures of the response: data.cpu.temperature, the temperature
\* of each entry of data.graphics, data.motherboard.temperature
ResponseData(cpu, controllers, dll) ==
    [cpu |-> ResolvedCpu(cpu, dll),
     graphics |-> [k \in 1..Len(controllers) |-> GraphicsTemp(controllers[k], dll)],
     mb |-> dll.mb]

\* what the sources gave to a poll and what the poll answered: wmi is what
\* getWmiTemperatures answered, or would have answered when it was not asked
Sources(cpu, controllers, dll, wmi, consulted, data) ==
    [poll |-> TRUE, cpu |-> cpu, controllers |-> controllers, dll |-> dll,
     wmi |-> wmi, consulted |-> consulted, data |-> data]

\* a GET suspended with its native values, the time its DLL read began and
\* what the DLL read returned
Suspended(pc, cpu, controllers, t0, dll) ==
    [pc |-> pc, cpu |-> cpu, controllers |-> controllers, t0 |-> t0, dll |-> dll]

\* GET from the resolution of the final temperatures to its response: the
\* data is formatted and checkAndTriggerShutdown called, not awaited
Finish(i, cpu, controllers, dll, wmi, consulted) ==
    LET d == IF consulted THEN MergeWmi(cpu, dll, wmi) ELSE dll
    IN  /\ Evaluate(ResolvedCpu(cpu, d), FinalGpu(controllers, d), FinalMb(d))
        /\ polls' = [polls EXCEPT ![i] = IdlePoll]
        /\ resolved' = Sources(cpu, controllers, dll, wmi, consulted,
                               ResponseData(cpu, controllers, d))

\* GET after readTempsViaDll has returned dll: it awaits getWmiTemperatures
\* or goes on to its end
AfterDll(i, cpu, controllers, t0, dll, wmi) ==
    IF NeedsWmi(cpu, controllers, dll)
    THEN /\ polls' = [polls EXCEPT ![i] = Suspended("wmi", cpu, controllers, t0, dll)]
         /\ last' = Op("poll", "pending", "none", config.triggered)
         /\ resolved' = NoSources
         /\ UNCHANGED <<config, now, os, calls, history>>
    ELSE Finish(i, cpu, controllers, dll, wmi, FALSE)

\* the cache still served at the very end of its time to live
PollStartInclusive(temp, controllers, wmi) ==
    /\ FreePolls # {}
    /\ IF now - tempCache.ts <= CACHE_TTL_MS
       THEN /\ read' = "cached"
            /\ AfterDll(FirstFreePoll, NativeCpu(temp), controllers, now,
                        [cpu |-> tempCache.cpu, gpu |-> tempCache.gpu,
                         mb |-> tempCache.mb], wmi)
       ELSE /\ read' = "spawned"
            /\ polls' = [polls EXCEPT ![FirstFreePoll] =
                            Suspended("ps64", NativeCpu(temp), controllers, now, NoTemps)]
            /\ last' = Op("poll", "pending", "none", config.triggered)
            /\ resolved' = NoSources
            /\ UNCHANGED <<config, now, os, calls, history>>
    /\ UNCHANGED tempCache

\* GET up to its first sensor await: the native read, then readTempsViaDll,
\* which answers from tempCache within its time to live and spawns
\* read_temps.ps1 otherwise
PollStart(temp, controllers, wmi) ==
    /\ FreePolls # {}
    /\ IF now - tempCache.ts < CACHE_TTL_MS
       THEN /\ read' = "cached"
            /\ AfterDll(FirstFreePoll, NativeCpu(temp), controllers, now,
                        [cpu |-> tempCache.cpu, gpu |-> tempCache.gpu,
                         mb |-> tempCache.mb], wmi)
       ELSE /\ read' = "spawned"
            /\ polls' = [polls EXCEPT ![FirstFreePoll] =
                            Suspended("ps64", NativeCpu(temp), controllers, now, NoTemps)]
            /\ last' = Op("poll", "pending", "none", config.triggered)
            /\ resolved' = NoSources
            /\ UNCHANGED <<config, now, os, calls, history>>
    /\ UNCHANGED tempCache

\* the native read throws: GET answers 500 and the guard is not called
PollFails ==
    /\ last' = Op("poll", "500", "none", config.triggered)
    /\ resolved' = NoSources
    /\ read' = "none"
    /\ UNCHANGED <<config, now, os, calls, history, tempCache, polls>>

\* a read without output stored as a reading of no temperature
DllOutputStampsFailure(i, stdout, wmi) ==
    /\ polls[i].pc \in {"ps64", "fallback"}
    /\ IF stdout.out = "json"
       THEN /\ read' = "ok"
            /\ tempCache' = [cpu |-> stdout.cpu_temp, gpu |-> stdout.gpu_temp,
                             mb |-> stdout.mb_temp, ts |-> polls[i].t0]
            /\ AfterDll(i, polls[i].cpu, polls[i].controllers, polls[i].t0,
                        [cpu |-> stdout.cpu_temp, gpu |-> stdout.gpu_temp,
                         mb |-> stdout.mb_temp], wmi)
       ELSE /\ read' = stdout.out
            /\ tempCache' = [cpu |-> null, gpu |-> null, mb |-> null,
                             ts |-> polls[i].t0]
            /\ AfterDll(i, polls[i].cpu, polls[i].controllers, polls[i].t0,
                        NoTemps, wmi)

\* read_temps.ps1 exits with stdout: only a parsed JSON is put in tempCache,
\* stamped with the time the read began
DllOutput(i, stdout, wmi) ==
    /\ polls[i].pc \in {"ps64", "fallback"}
    /\ IF stdout.out = "json"
       THEN /\ read' = "ok"
            /\ tempCache' = [cpu |-> stdout.cpu_temp, gpu |-> stdout.gpu_temp,
                             mb |-> stdout.mb_temp, ts |-> polls[i].t0]
            /\ AfterDll(i, polls[i].cpu, polls[i].controllers, polls[i].t0,
                        [cpu |-> stdout.cpu_temp, gpu |-> stdout.gpu_temp,
                         mb |-> stdout.mb_temp], wmi)
       ELSE /\ read' = stdout.out
            /\ UNCHANGED tempCache
            /\ AfterDll(i, polls[i].cpu, polls[i].controllers, polls[i].t0,
                        NoTemps, wmi)

\* the PowerShell process fails or times out: the 64-bit one is followed by
\* the fallback, the fallback by the catch that returns no temperature
DllError(i, wmi) ==
    /\ polls[i].pc \in {"ps64", "fallback"}
    /\ IF polls[i].pc = "ps64"
       THEN /\ read' = "retry"
            /\ polls' = [polls EXCEPT ![i].pc = "fallback"]
            /\ last' = Op("poll", "pending", "err", config.triggered)
            /\ resolved' = NoSources
            /\ UNCHANGED <<config, now, os, calls, history>>
       ELSE /\ read' = "failed"
            /\ AfterDll(i, polls[i].cpu, polls[i].controllers, polls[i].t0,
                        NoTemps, wmi)
    /\ UNCHANGED tempCache

\* getWmiTemperatures returns (no temperature when it failed)
WmiReturn(i, wmi) ==
    /\ polls[i].pc = "wmi"
    /\ Finish(i, polls[i].cpu, polls[i].controllers, polls[i].dll, wmi, TRUE)
    /\ read' = "none"
    /\ UNCHANGED tempCache

\* d ms pass
Expire(d) ==
    /\ now + d <= Epoch + MaxTime * CACHE_TTL_MS
    /\ now' = now + d
    /\ last' = Op("tick", "none", "none", config.triggered)
    /\ resolved' = NoSources
    /\ read' = "none"
    /\ UNCHANGED <<config, os, calls, history, tempCache, polls>>

----------------------------------------------------------------------------
(* Inputs *)

\* snapshots of the concurrent specification: all absent, all just below the
\* default thresholds, cpu at its threshold, gpu and mb at theirs
RaceSnapshots ==
    {<<null, null, null>>, <<N(79), N(84), N(74)>>, <<N(80), null, null>>,
     <<null, N(85), N(75)>>}

RaceBodies ==
    { [EmptyBody EXCEPT !.enabled = Bool(TRUE)],
      [EmptyBody EXCEPT !.enabled = Bool(FALSE)] }

\* snapshots of the sequential specification: every metric absent, below, at
\* and above its default threshold
CpuTemps == {null, N(79), N(80), N(85)}
GpuTemps == {null, N(84), N(85), N(95)}
MbTemps == {null, N(74), N(75), N(100)}

EvalBodies ==
    { [EmptyBody EXCEPT !.enabled = Bool(TRUE)],
      [EmptyBody EXCEPT !.enabled = Bool(FALSE)],
      [EmptyBody EXCEPT !.cpuThreshold = Num(N(85))],
      [EmptyBody EXCEPT !.gpuThreshold = Num(N(95)), !.mbThreshold = Num(N(100))],
      [EmptyBody EXCEPT !.shutdownDelay = Num(N(30))],
      Malformed }

\* request bodies of the specification of the policy: for each field a value of
\* the wrong type and the values around the bounds of its range
EnabledValues == {Bool(TRUE), Bool(FALSE), Str("true")}
ThresholdValues == {Num(N(29)), Num(N(30)), Num(N(120)), Num(N(121)), Str("80")}
DelayValues == {Num(N(9)), Num(N(10)), Num(N(300)), Num(N(301)), Num(Half(10)), Str("60")}

\* one field present
SingleBodies ==
    {[EmptyBody EXCEPT !.enabled = v] : v \in EnabledValues}
    \cup {[EmptyBody EXCEPT !.cpuThreshold = v] : v \in ThresholdValues}
    \cup {[EmptyBody EXCEPT !.gpuThreshold = v] : v \in ThresholdValues}
    \cup {[EmptyBody EXCEPT !.mbThreshold = v] : v \in ThresholdValues}
    \cup {[EmptyBody EXCEPT !.shutdownDelay = v] : v \in DelayValues}

\* several fields present, some acceptable and some not
MixedBodies ==
    {[EmptyBody EXCEPT !.cpuThreshold = c, !.gpuThreshold = g, !.shutdownDelay = d] :
        c \in {Undefined, Num(N(30)), Num(N(121))},
        g \in {Undefined, Num(N(120)), Num(N(29))},
        d \in {Undefined, Num(N(300)), Num(N(9))}}
    \cup {[enabled |-> Bool(TRUE), cpuThreshold |-> Num(N(30)),
           gpuThreshold |-> Num(N(30)), mbThreshold |-> Num(N(30)),
           shutdownDelay |-> Num(N(10))],
          [enabled |-> Str("true"), cpuThreshold |-> Num(N(121)),
           gpuThreshold |-> Str("80"), mbThreshold |-> Num(N(29)),
           shutdownDelay |-> Num(N(301))],
          [enabled |-> Bool(TRUE), cpuThreshold |-> Num(N(120)),
           gpuThreshold |-> Num(N(121)), mbThreshold |-> Num(N(120)),
           shutdownDelay |-> Str("60")]}

\* bodies that also carry incident fields or a field the guard does not know
ExtraBodies ==
    {[enabled |-> Undefined, cpuThreshold |-> Undefined, gpuThreshold |-> Undefined,
      mbThreshold |-> Undefined, shutdownDelay |-> Num(N(300)),
      triggered |-> Bool(FALSE), triggeredAt |-> NullValue,
      triggeredBy |-> NullValue, triggeredTemp |-> NullValue],
     [enabled |-> Bool(TRUE), cpuThreshold |-> Undefined, gpuThreshold |-> Undefined,
      mbThreshold |-> Undefined, shutdownDelay |-> Undefined,
      triggered |-> Bool(TRUE), triggeredAt |-> Num(N(1)),
      triggeredBy |-> Str("cpu"), triggeredTemp |-> Num(N(99))],
     [enabled |-> Undefined, cpuThreshold |-> Num(N(30)), gpuThreshold |-> Undefined,
      mbThreshold |-> Undefined, shutdownDelay |-> Undefined,
      fanSpeed |-> Num(N(50))]}

PolicyBodies ==
    SingleBodies \cup MixedBodies \cup ExtraBodies \cup {Malformed, JsonNull}

\* snapshots of the specification of the policy: over every threshold the
\* policy can hold, and under every one
PolicySnapshots == {<<N(120), N(120), N(120)>>, <<N(29), null, N(29)>>}

Outcomes == {"ok", "err"}

\* no handler invocation is suspended
Quiet == FreeSlots = 1..MaxCalls

----------------------------------------------------------------------------
(* The guard under concurrent requests: polls, updates and cancels interleave *)
(* at every await                                                          *)

Next ==
    \/ Tick /\ UNCHANGED sensorVars
    \/ \E s \in RaceSnapshots : Evaluate(s[1], s[2], s[3]) /\ UNCHANGED sensorVars
    \/ \E i \in 1..MaxCalls, o \in Outcomes : RunShutdown(i, o) /\ UNCHANGED sensorVars
    \/ \E i \in 1..MaxCalls, o \in Outcomes : RunAbort(i, o) /\ UNCHANGED sensorVars
    \/ \E i \in 1..MaxCalls : EvaluateReturn(i) /\ UNCHANGED sensorVars
    \/ \E b \in RaceBodies : Update(b) /\ UNCHANGED sensorVars
    \/ CancelStart /\ UNCHANGED sensorVars
    \/ \E i \in 1..MaxCalls : CancelReturn(i) /\ UNCHANGED sensorVars

Spec == Init /\ [][Next]_vars

(* The guard under one request at a time, over every snapshot and policy *)

NextEval ==
    \/ \E c \in CpuTemps, g \in GpuTemps, m \in MbTemps : Quiet /\ Evaluate(c, g, m) /\ UNCHANGED sensorVars
    \/ \E o \in Outcomes : RunShutdown(1, o) /\ UNCHANGED sensorVars
    \/ \E o \in Outcomes : RunAbort(1, o) /\ UNCHANGED sensorVars
    \/ EvaluateReturn(1) /\ UNCHANGED sensorVars
    \/ \E b \in EvalBodies : Quiet /\ Update(b) /\ UNCHANGED sensorVars
    \/ Quiet /\ CancelStart /\ UNCHANGED sensorVars
    \/ CancelReturn(1) /\ UNCHANGED sensorVars

SpecEval == Init /\ [][NextEval]_vars

(* The policy under every request body, one request at a time *)

NextPolicy ==
    \/ \E b \in PolicyBodies : Quiet /\ Update(b) /\ UNCHANGED sensorVars
    \/ \E s \in PolicySnapshots : Quiet /\ Evaluate(s[1], s[2], s[3]) /\ UNCHANGED sensorVars
    \/ \E o \in Outcomes : RunShutdown(1, o) /\ UNCHANGED sensorVars
    \/ \E o \in Outcomes : RunAbort(1, o) /\ UNCHANGED sensorVars
    \/ EvaluateReturn(1) /\ UNCHANGED sensorVars
    \/ Quiet /\ CancelStart /\ UNCHANGED sensorVars
    \/ CancelReturn(1) /\ UNCHANGED sensorVars

SpecPolicy == Init /\ [][NextPolicy]_vars

(* The guard under polls that keep coming with a temperature at or above its *)
(* threshold: the poll timer of the dashboard keeps calling evaluate, the OS   *)
(* runs every command it is given and every suspended handler resumes        *)

\* snapshots with a metric at or above its default threshold
HotSnapshots == {<<N(80), null, null>>, <<null, N(85), N(75)>>}

HotPoll ==
    /\ \E s \in HotSnapshots : Evaluate(s[1], s[2], s[3])
    /\ UNCHANGED sensorVars

Resumes ==
    /\ \/ \E i \in 1..MaxCalls, o \in Outcomes : RunShutdown(i, o)
       \/ \E i \in 1..MaxCalls, o \in Outcomes : RunAbort(i, o)
       \/ \E i \in 1..MaxCalls : EvaluateReturn(i)
       \/ \E i \in 1..MaxCalls : CancelReturn(i)
    /\ UNCHANGED sensorVars

SpecLive == Init /\ [][Next]_vars /\ SF_vars(HotPoll) /\ WF_vars(Resumes)

(* The polls of the system route, interleaving at every await *)

NoWmi == [cpu |-> null, gpu |-> null]

\* the time to live of the cache, and one ms less
Waits == {CACHE_TTL_MS - 1, CACHE_TTL_MS}

RaceTemps == {[main |-> null, cores |-> <<>>]}
RaceControllers == {<<null>>}
RaceOutputs == {EmptyOutput, JsonOutput(N(42), N(52), N(61)), JsonOutput(null, null, N(61))}
RaceWmi == {NoWmi, [cpu |-> N(43), gpu |-> N(53)]}

NextSensors ==
    \/ Tick /\ resolved' = NoSources /\ read' = "none" /\ UNCHANGED <<tempCache, polls>>
    \/ \E d \in Waits : Expire(d)
    \/ \E t \in RaceTemps, c \in RaceControllers, w \in RaceWmi : PollStart(t, c, w)
    \/ PollFails
    \/ \E i \in 1..MaxPolls, s \in RaceOutputs, w \in RaceWmi : DllOutput(i, s, w)
    \/ \E i \in 1..MaxPolls, w \in RaceWmi : DllError(i, w)
    \/ \E i \in 1..MaxPolls, w \in RaceWmi : WmiReturn(i, w)

SpecSensors == Init /\ [][NextSensors]_vars

(* The polls feeding an armed guard: the sensors report temperatures over    *)
(* the thresholds, polls overlap, and nobody cancels                         *)

\* a step of the guard's route: the system route is not involved
GuardStep == resolved' = NoSources /\ read' = "none" /\ UNCHANGED <<tempCache, polls>>

PollControllers == {<<>>, <<N(51)>>}
PollOutputs == {EmptyOutput, JsonOutput(N(90), N(52), N(61))}
PollWmi == {NoWmi, [cpu |-> N(85), gpu |-> N(53)]}

NextPoll ==
    \/ Expire(CACHE_TTL_MS)
    \/ \E t \in RaceTemps, c \in PollControllers, w \in PollWmi : PollStart(t, c, w)
    \/ PollFails
    \/ \E i \in 1..MaxPolls, s \in PollOutputs, w \in PollWmi : DllOutput(i, s, w)
    \/ \E i \in 1..MaxPolls, w \in PollWmi : DllError(i, w)
    \/ \E i \in 1..MaxPolls, w \in PollWmi : WmiReturn(i, w)
    \/ \E b \in RaceBodies : Update(b) /\ GuardStep
    \/ \E i \in 1..MaxCalls, o \in Outcomes : RunShutdown(i, o) /\ GuardStep
    \/ \E i \in 1..MaxCalls : EvaluateReturn(i) /\ GuardStep

SpecPoll == Init /\ [][NextPoll]_vars

(* One poll at a time, over every combination of what the sources give *)

NativeTemps ==
    {[main |-> null, cores |-> <<>>], [main |-> N(41), cores |-> <<>>],
     [main |-> null, cores |-> <<N(41)>>]}
Controllers == {<<>>, <<null>>, <<N(51)>>}
DllOutputs ==
    {EmptyOutput, GarbledOutput}
    \cup {JsonOutput(c, g, m) : c \in {null, N(42)}, g \in {null, N(52)},
                                m \in {null, N(61)}}
WmiOutputs == {[cpu |-> c, gpu |-> g] : c \in {null, N(43)}, g \in {null, N(53)}}

QuietPolls == FreePolls = 1..MaxPolls

NextResolve ==
    \/ \E d \in Waits : Expire(d)
    \/ \E t \in NativeTemps, c \in Controllers, w \in WmiOutputs :
          QuietPolls /\ PollStart(t, c, w)
    \/ PollFails
    \/ \E s \in DllOutputs, w \in WmiOutputs : DllOutput(1, s, w)
    \/ \E w \in WmiOutputs : DllError(1, w)
    \/ \E w \in WmiOutputs : WmiReturn(1, w)

SpecResolve == Init /\ [][NextResolve]_vars

(* The power route next to the guard, one request at a time *)

PowerActions ==
    {Str("shutdown"), Str("reboot"), Str("cancel"), Str("hibernate"), Undefined}
PowerDelays ==
    {Undefined, NullValue, Num(N(0)), Num(N(5)), Num(N(300)), Num(N(301)),
     Num(-N(5)), Num(Half(10)), Text(<<"6", "0">>), Text(<<"5", "s">>),
     Text(<<"s", "o", "o", "n">>)}
PowerRequests ==
    {[action |-> a, delay |-> d] : a \in PowerActions, d \in PowerDelays}
    \cup {Malformed, JsonNull}
PowerOutcomes == {"ok", "unable", "err"}

NextPower ==
    \/ \E b \in RaceBodies : Quiet /\ Update(b) /\ UNCHANGED sensorVars
    \/ \E s \in HotSnapshots : Quiet /\ Evaluate(s[1], s[2], s[3]) /\ UNCHANGED sensorVars
    \/ \E o \in Outcomes : RunShutdown(1, o) /\ UNCHANGED sensorVars
    \/ EvaluateReturn(1) /\ UNCHANGED sensorVars
    \/ Quiet /\ CancelStart /\ UNCHANGED sensorVars
    \/ \E o \in Outcomes : RunAbort(1, o) /\ UNCHANGED sensorVars
    \/ CancelReturn(1) /\ UNCHANGED sensorVars
    \/ \E r \in PowerRequests : Quiet /\ PowerStart(r) /\ UNCHANGED sensorVars
    \/ \E o \in PowerOutcomes : RunPower(1, o) /\ UNCHANGED sensorVars
    \/ PowerReturn(1) /\ UNCHANGED sensorVars

SpecPower == Init /\ [][NextPower]_vars

(* The guard across restarts of its process *)

NextRestart ==
    \/ Tick /\ UNCHANGED sensorVars
    \/ \E s \in RaceSnapshots : Evaluate(s[1], s[2], s[3]) /\ UNCHANGED sensorVars
    \/ \E i \in 1..MaxCalls, o \in Outcomes : RunShutdown(i, o) /\ UNCHANGED sensorVars
    \/ \E i \in 1..MaxCalls, o \in Outcomes : RunAbort(i, o) /\ UNCHANGED sensorVars
    \/ \E i \in 1..MaxCalls : EvaluateReturn(i) /\ UNCHANGED sensorVars
    \/ \E b \in RaceBodies : Update(b) /\ UNCHANGED sensorVars
    \/ CancelStart /\ UNCHANGED sensorVars
    \/ \E i \in 1..MaxCalls : CancelReturn(i) /\ UNCHANGED sensorVars
    \/ Restart
    \/ \E i \in 1..MaxCalls, o \in Outcomes : RunOrphan(i, o) /\ UNCHANGED sensorVars

SpecRestart == Init /\ [][NextRestart]_vars

----------------------------------------------------------------------------
(* Vocabulary of the properties *)

\* a present metric at or above its threshold
AtOrAbove(temp, threshold) == temp # null /\ temp >= threshold

CpuHot(cfg, l) == AtOrAbove(l.cpu, cfg.cpuThreshold)
GpuHot(cfg, l) == AtOrAbove(l.gpu, cfg.gpuThreshold)
MbHot(cfg, l) == AtOrAbove(l.mb, cfg.mbThreshold)
SomeHot(cfg, l) == CpuHot(cfg, l) \/ GpuHot(cfg, l) \/ MbHot(cfg, l)

\* the incident fields of a config
Incident(cfg) ==
    [triggered |-> cfg.triggered, triggeredAt |-> cfg.triggeredAt,
     triggeredBy |-> cfg.triggeredBy, triggeredTemp |-> cfg.triggeredTemp]

NoIncident ==
    [triggered |-> FALSE, triggeredAt |-> null, triggeredBy |-> nullStr,
     triggeredTemp |-> null]

\* the shutdown commands of the guard that are spawned and not yet returned from
ShutdownCalls(cs) == {i \in 1..MaxCalls : cs[i].kind = "evaluate"}
AbortCalls(cs) == {i \in 1..MaxCalls : cs[i].kind = "cancel"}

\* this step spawns a shutdown command
SpawnsShutdown == \E i \in 1..MaxCalls : calls[i] = Idle /\ calls'[i].kind = "evaluate"

\* this step spawns no external command
SpawnsNothing == \A i \in 1..MaxCalls : calls'[i] = calls[i] \/ calls[i] # Idle

----------------------------------------------------------------------------
(* C1: an evaluate() made while the guard is Triggered, whatever its snapshot, *)
(* spawns no shutdown command, changes neither the OS nor the suspended calls, *)
(* and leaves triggered, triggeredAt, triggeredBy and triggeredTemp (the whole *)
(* config) as the original incident set them.                                  *)
C1_TriggeredEvaluateIsNoOp ==
    [][(config.triggered /\ last'.op = "evaluate") =>
          /\ ~last'.issued
          /\ config' = config
          /\ calls' = calls
          /\ os' = os]_vars

\* an over-threshold evaluate has run on an enabled, already triggered guard,
\* later than the incident's timestamp
C1_Witness ==
    /\ last.op = "evaluate"
    /\ last.wasTriggered
    /\ config.enabled
    /\ config.triggered
    /\ SomeHot(config, last)
    /\ now > config.triggeredAt

(* C2: a cancel that completes leaves no incident, and an evaluate() that      *)
(* triggered and completes after a cancel has completed (and no other trigger  *)
(* since) leaves the guard Triggered with its incident.                        *)
C2_CancelTriggerOrder ==
    /\ last.op = "cancel" => Incident(config) = NoIncident
    /\ (last.op = "evaluateDone" /\ history = "cleared") =>
          (config.triggered /\ config.triggeredAt # null
           /\ config.triggeredBy # nullStr /\ config.triggeredTemp # null)

(* C3: once a cancel has completed and while the guard reports no incident,   *)
(* no shutdown requested by the guard comes to be pending in the OS: a cancel  *)
(* is effective also on a shutdown request of evaluate() that is in flight.    *)
C3_CancelLeavesNothingPending ==
    [][(history = "cleared" /\ ~config.triggered /\ os.by # "guard") =>
          os'.by # "guard"]_vars

(* C4: after a trigger, triggeredTemp is the value of the first tripped metric *)
(* in the order cpu, gpu, mb.                                                  *)
C4_FirstMatchWins ==
    (last.op = "evaluate" /\ last.issued) =>
        config.triggeredTemp =
            IF CpuHot(config, last) THEN last.cpu
            ELSE IF GpuHot(config, last) THEN last.gpu
            ELSE last.mb

(* C5: an evaluate() on a disabled guard, or with no present metric at or      *)
(* above its threshold, changes nothing of the config and spawns no command.   *)
C5_EvaluateNoOp ==
    [][(last'.op = "evaluate" /\ (~config.enabled \/ ~SomeHot(config, last'))) =>
          /\ ~last'.issued
          /\ config' = config
          /\ calls' = calls
          /\ os' = os]_vars

\* an over-threshold evaluate has run on a disabled guard without an incident
C5_Witness ==
    /\ last.op = "evaluate"
    /\ ~config.enabled
    /\ ~config.triggered
    /\ ~last.wasTriggered
    /\ CpuHot(config, last)
    /\ history = "none"

C8_CancelAlwaysClears ==
    [][\A i \in 1..MaxCalls :
          /\ (calls[i] = Idle /\ calls'[i].kind = "cancel") =>
                (calls'[i].pc = "cmd" /\ config' = config)
          /\ (calls[i].kind = "cancel" /\ calls'[i] = Idle) =>
                /\ calls[i].pc = "ret"
                /\ calls[i].result \in {"ok", "err"}
                /\ Incident(config') = NoIncident
                /\ config' = [config EXCEPT !.triggered = FALSE, !.triggeredAt = null,
                                            !.triggeredBy = nullStr,
                                            !.triggeredTemp = null]
                /\ last'.op = "cancel"
                /\ last'.status = "200"]_vars

\* a cancel whose command failed has returned and cleared a live incident
C8_Witness ==
    /\ last.op = "cancel"
    /\ last.cmd = "err"
    /\ last.wasTriggered
    /\ last.status = "200"
    /\ Incident(config) = NoIncident
    /\ config.enabled

(* C9: after a cancel has cleared an incident, on a guard still enabled, the   *)
(* next evaluate() with a metric at or above its threshold records a fresh     *)
(* incident (triggeredAt the current time, triggeredBy and triggeredTemp from  *)
(* this snapshot) and spawns a new shutdown command.                           *)
C9_RearmedAfterCancel ==
    [][(last'.op = "evaluate" /\ history = "cleared" /\ config.enabled
        /\ SomeHot(config, last')) =>
          /\ config'.triggered
          /\ config'.triggeredAt = now
          /\ config'.triggeredBy # nullStr
          /\ config'.triggeredTemp \in ({last'.cpu, last'.gpu, last'.mb} \ {null})
          /\ last'.issued
          /\ SpawnsShutdown
          /\ history' = "rearmed"]_vars

\* a second incident, begun after a cancel cleared the first, at a later time
C9_Witness ==
    /\ last.op = "evaluate"
    /\ last.issued
    /\ history = "rearmed"
    /\ config.triggered
    /\ config.triggeredAt = now
    /\ now > Epoch

(* C10: when the shutdown command of a trigger fails, the failure and the      *)
(* return of evaluate() leave the config as it is (Triggered, unless a cancel  *)
(* has cleared it meanwhile), evaluate() resolves, and neither its return nor  *)
(* a later evaluate() on the Triggered guard spawns another shutdown command.  *)
C10_FailedShutdownNotRetried ==
    [][/\ \A i \in 1..MaxCalls :
             /\ (calls[i].kind = "evaluate" /\ calls[i].pc = "cmd"
                 /\ calls'[i].kind = "evaluate" /\ calls'[i].result = "err") =>
                   /\ config' = config
                   /\ history # "cleared" =>
                         (config'.triggered /\ config'.triggeredAt # null
                          /\ config'.triggeredBy # nullStr
                          /\ config'.triggeredTemp # null)
             /\ (calls[i].kind = "evaluate" /\ calls[i].pc = "ret"
                 /\ calls[i].result = "err" /\ calls'[i] = Idle) =>
                   /\ config' = config
                   /\ last'.status = "resolved"
                   /\ SpawnsNothing
       /\ (config.triggered /\ last'.op = "evaluate") =>
             (~last'.issued /\ SpawnsNothing /\ config' = config)]_vars

\* an over-threshold evaluate has run on the Triggered guard while the failed
\* shutdown command of the incident has not been returned from yet
C10_Witness ==
    /\ last.op = "evaluate"
    /\ ~last.issued
    /\ last.wasTriggered
    /\ config.triggered
    /\ SomeHot(config, last)
    /\ os = NoShutdown
    /\ \E i \in 1..MaxCalls :
          calls[i].kind = "evaluate" /\ calls[i].pc = "ret" /\ calls[i].result = "err"

(* C11: in every reachable state the three thresholds are within [30, 120]    *)
(* and shutdownDelay is an integer within [10, 300].                           *)
C11_PolicyRange ==
    /\ config.cpuThreshold >= N(30) /\ config.cpuThreshold <= N(120)
    /\ config.gpuThreshold >= N(30) /\ config.gpuThreshold <= N(120)
    /\ config.mbThreshold >= N(30) /\ config.mbThreshold <= N(120)
    /\ config.shutdownDelay >= N(10) /\ config.shutdownDelay <= N(300)
    /\ IsInteger(config.shutdownDelay)

\* a field of a body is present with the type and the range of the update contract
Acceptable(f, v) ==
    IF f = "enabled" THEN v.t = "boolean"
    ELSE IF f = "shutdownDelay" THEN v.t = "number" /\ v.v >= N(10) /\ v.v <= N(300)
    ELSE v.t = "number" /\ v.v >= N(30) /\ v.v <= N(120)

PolicyFields == {"enabled", "cpuThreshold", "gpuThreshold", "mbThreshold", "shutdownDelay"}

C13_DisableKeepsIncident ==
    [][/\ (last'.op = "update" /\ config.triggered /\ ~config'.enabled) =>
             /\ Incident(config') = Incident(config)
             /\ os' = os
             /\ calls' = calls
       /\ (last'.op = "evaluate" /\ ~config.enabled) =>
             /\ config' = config
             /\ os' = os
             /\ calls' = calls]_vars

\* the guard has just been disabled with its incident live and its shutdown
\* scheduled in the OS
C13_Witness ==
    /\ last.op = "update"
    /\ last.body.enabled = Bool(FALSE)
    /\ last.wasTriggered
    /\ ~config.enabled
    /\ config.triggered
    /\ config.triggeredBy # nullStr
    /\ os.by = "guard"

\* the tags of a triggeredBy label
Tags(by) ==
    (IF by \in {"cpu", "cpu+gpu", "cpu+mb", "cpu+gpu+mb"} THEN {"cpu"} ELSE {})
    \cup (IF by \in {"gpu", "cpu+gpu", "gpu+mb", "cpu+gpu+mb"} THEN {"gpu"} ELSE {})
    \cup (IF by \in {"mb", "cpu+mb", "gpu+mb", "cpu+gpu+mb"} THEN {"mb"} ELSE {})

(* C14: an evaluate() whose three metrics are absent changes nothing; a        *)
(* trigger names no absent metric in triggeredBy and takes triggeredTemp from  *)
(* a metric that is present.                                                   *)
C14_AbsentNeverEvaluated ==
    [][last'.op = "evaluate" =>
          /\ (last'.cpu = null /\ last'.gpu = null /\ last'.mb = null) =>
                (~last'.issued /\ config' = config /\ calls' = calls /\ os' = os)
          /\ last'.issued =>
                /\ last'.cpu = null => "cpu" \notin Tags(config'.triggeredBy)
                /\ last'.gpu = null => "gpu" \notin Tags(config'.triggeredBy)
                /\ last'.mb = null => "mb" \notin Tags(config'.triggeredBy)
                /\ config'.triggeredTemp # null
                /\ config'.triggeredTemp \in
                      ({last'.cpu, last'.gpu, last'.mb} \ {null})]_vars

\* a trigger by mb alone, cpu and gpu absent
C14_Witness ==
    /\ last.op = "evaluate"
    /\ last.issued
    /\ last.cpu = null
    /\ last.gpu = null
    /\ last.mb # null
    /\ config.triggeredBy = "mb"
    /\ config.triggeredTemp = last.mb

(* C17: an update whose body cannot be parsed, or is a JSON value whose fields *)
(* cannot be read, answers 400 and leaves the config, the OS and the suspended *)
(* calls unchanged; no other update answers 400.                               *)
C17_MalformedBody ==
    [][last'.op = "update" =>
          /\ last'.body \in {Malformed, JsonNull} =>
                (last'.status = "400" /\ config' = config /\ calls' = calls
                 /\ os' = os)
          /\ last'.status = "400" => last'.body \in {Malformed, JsonNull}]_vars

\* a null body has been answered 400 on a guard with a changed policy and a
\* live incident
C17_Witness ==
    /\ last.op = "update"
    /\ last.body = JsonNull
    /\ last.status = "400"
    /\ config.triggered
    /\ config.cpuThreshold = N(30)

\* the policy the module is loaded with, written out
StartupPolicy ==
    [enabled |-> FALSE, cpuThreshold |-> N(80), gpuThreshold |-> N(85),
     mbThreshold |-> N(75), shutdownDelay |-> N(60), triggered |-> FALSE,
     triggeredAt |-> null, triggeredBy |-> nullStr, triggeredTemp |-> null]

\* an update that only sets enabled to true
EnableOnly == [EmptyBody EXCEPT !.enabled = Bool(TRUE)]

(* C16: the guard starts Disarmed with the default policy (enabled false,     *)
(* thresholds 80, 85, 75, delay 60) and no incident; from there an update      *)
(* enabling it, then evaluate(cpu 85), gives Triggered with triggeredBy "cpu"  *)
(* and triggeredTemp 85, and a cancel then gives Armed with no incident.       *)
C16_DefaultsAndScenario ==
    /\ config = StartupPolicy
    /\ os = NoShutdown
    /\ [][/\ (last'.op = "update" /\ last'.body = EnableOnly
              /\ config = StartupPolicy) =>
                config' = [StartupPolicy EXCEPT !.enabled = TRUE]
          /\ (last'.op = "evaluate" /\ last'.cpu = N(85) /\ last'.gpu = null
              /\ last'.mb = null
              /\ config = [StartupPolicy EXCEPT !.enabled = TRUE]) =>
                /\ last'.issued
                /\ config'.enabled
                /\ config'.triggered
                /\ config'.triggeredBy = "cpu"
                /\ config'.triggeredTemp = N(85)
          /\ (last'.op = "cancel" /\ config.enabled /\ config.triggered
              /\ config.triggeredBy = "cpu" /\ config.triggeredTemp = N(85)) =>
                /\ config'.enabled
                /\ Incident(config') = NoIncident]_vars

\* the end of the scenario: a cancel has cleared an incident and left the
\* default policy armed
C16_Witness ==
    /\ last.op = "cancel"
    /\ last.wasTriggered
    /\ history = "cleared"
    /\ config = [StartupPolicy EXCEPT !.enabled = TRUE]

(* C20: a restart of the process leaves the guard Disarmed with the default   *)
(* policy and no incident, whatever its state before; it neither cancels the   *)
(* shutdown scheduled in the OS nor spawns a command.                          *)
C20_RestartLosesState ==
    [][last'.op = "restart" =>
          /\ config' = StartupPolicy
          /\ os' = os
          /\ \A i \in 1..MaxCalls :
                calls'[i] # Idle =>
                   (i \in InFlight /\ calls'[i] = Orphan(calls[i]))]_vars

\* the process has restarted while an incident was live and its shutdown
\* scheduled: the OS still holds the shutdown, the guard knows nothing of it
C20_Witness ==
    /\ last.op = "restart"
    /\ last.wasTriggered
    /\ os.by = "guard"
    /\ ~config.triggered
    /\ ~config.enabled

\* a shutdown command with the configured delay has been spawned
IssuedWithConfiguredDelay ==
    \E i \in 1..MaxCalls :
        /\ calls[i].kind = "evaluate"
        /\ calls[i].delay = config.shutdownDelay
        /\ calls[i].message.delay = config.shutdownDelay

(* C15: under polls that keep delivering a temperature at or above its        *)
(* threshold, a guard that is enabled with no incident is eventually           *)
(* Triggered with a shutdown command of the configured delay issued, unless    *)
(* the operator disables it first.                                             *)
C15_HotEventuallyTriggers ==
    (config.enabled /\ ~config.triggered)
        ~> (~config.enabled \/ (config.triggered /\ IssuedWithConfiguredDelay))

\* a hot poll has just triggered the armed guard and spawned the command
C15_Witness ==
    /\ last.op = "evaluate"
    /\ last.issued
    /\ ~last.wasTriggered
    /\ SomeHot(config, last)
    /\ config.enabled
    /\ config.triggered
    /\ IssuedWithConfiguredDelay

(* C18: while a refresh of the temperatures is in flight, a read is answered  *)
(* from tempCache: no step leaves one more GET waiting for read_temps.ps1     *)
(* than there was, so no second external sensor read is started and no        *)
(* reader waits for one.                                                      *)
C18_StaleWhileRefreshing ==
    [][Refreshing(polls) # {} =>
          Cardinality(Refreshing(polls')) <= Cardinality(Refreshing(polls))]_vars

\* the first source, in order, that has a value; absent when none has
FirstPresent(values) ==
    IF values[1] # null THEN values[1]
    ELSE IF values[2] # null THEN values[2]
    ELSE values[3]

\* what the native source has for the gpu
NativeGpu(controllers) == IF Len(controllers) = 0 THEN null ELSE controllers[1]

(* C19: the cpu and the gpu temperature handed to the guard are each the      *)
(* value of the first of native, DLL helper, WMI that has one, absent only    *)
(* when all three are absent; mb is the DLL helper's value.                   *)
C19_FirstNonAbsentWins ==
    resolved.poll =>
        /\ last.op = "evaluate"
        /\ last.cpu = FirstPresent(<<resolved.cpu, resolved.dll.cpu, resolved.wmi.cpu>>)
        /\ last.gpu = FirstPresent(<<NativeGpu(resolved.controllers),
                                     resolved.dll.gpu, resolved.wmi.gpu>>)
        /\ last.mb = resolved.dll.mb

\* the cpu, gpu and mb values of the cache
Cached(c) == [cpu |-> c.cpu, gpu |-> c.gpu, mb |-> c.mb]

\* the DLL temperatures a poll has after this step, finished or suspended
SeesDll(i, dll) ==
    \/ resolved'.poll /\ resolved'.dll = dll /\ polls'[i] = IdlePoll
    \/ polls'[i].pc = "wmi" /\ polls'[i].dll = dll

(* C24: a temperature read that starts less than 2500 ms after the start of   *)
(* the last successful sensor read returns the cached cpu, gpu and mb values   *)
(* and runs no sensor script; one that starts 2500 ms after it or later runs   *)
(* the script; a successful read stamps the cache with the time it started.    *)
C24_CacheTtl ==
    [][/\ read' \in {"cached", "spawned"} =>
             (read' = "cached" <=> now - tempCache.ts < 2500)
       /\ read' = "cached" =>
             /\ tempCache' = tempCache
             /\ Refreshing(polls') = Refreshing(polls)
             /\ \E i \in 1..MaxPolls :
                   polls[i] = IdlePoll /\ SeesDll(i, Cached(tempCache))
       /\ read' = "spawned" =>
             /\ tempCache' = tempCache
             /\ \E i \in 1..MaxPolls :
                   /\ polls[i] = IdlePoll
                   /\ polls'[i].pc = "ps64"
                   /\ polls'[i].t0 = now
                   /\ Refreshing(polls') = Refreshing(polls) \cup {i}
       /\ read' = "ok" =>
             \E i \in Refreshing(polls) :
                   /\ i \notin Refreshing(polls')
                   /\ tempCache'.ts = polls[i].t0
                   /\ SeesDll(i, Cached(tempCache'))]_vars

\* a read 2499 ms after the start of the read that filled the cache has been
\* answered from the cache
C24_Witness ==
    /\ read = "cached"
    /\ now - tempCache.ts = 2499
    /\ tempCache.cpu # null
    /\ resolved.poll
    /\ resolved.dll = Cached(tempCache)

FirstGraphics(data) == IF Len(data.graphics) = 0 THEN null ELSE data.graphics[1]

(* C22: a snapshot read that succeeds calls evaluate() in the step in which   *)
(* it answers, once, with the cpu, first-GPU and motherboard temperatures of   *)
(* its response; it answers in that step also when evaluate() has spawned the  *)
(* shutdown command, whose outcome touches no read; a read that fails calls    *)
(* nothing and changes nothing.                                                *)
C22_ReadCallsEvaluateOnce ==
    [][/\ last'.op = "evaluate" =>
             /\ resolved'.poll
             /\ last'.cpu = resolved'.data.cpu
             /\ last'.gpu = FirstGraphics(resolved'.data)
             /\ last'.mb = resolved'.data.mb
             /\ \E i \in 1..MaxPolls :
                   /\ polls'[i] = IdlePoll
                   /\ polls[i] # IdlePoll \/ read' = "cached"
                   /\ \A j \in 1..MaxPolls \ {i} : polls'[j] = polls[j]
             /\ Cardinality(ShutdownCalls(calls'))
                   <= Cardinality(ShutdownCalls(calls)) + 1
       /\ (\E i \in 1..MaxPolls : polls[i] # IdlePoll /\ polls'[i] = IdlePoll) =>
             last'.op = "evaluate"
       /\ (read' = "cached" /\ polls' = polls) => last'.op = "evaluate"
       /\ last'.status = "500" =>
             /\ last'.op = "poll"
             /\ config' = config
             /\ calls' = calls
             /\ os' = os
       /\ last'.op \in {"os", "evaluateDone"} =>
             /\ polls' = polls
             /\ tempCache' = tempCache]_vars

\* a read has answered in the step in which its evaluate() spawned the
\* shutdown command: the command is still to run and no read is suspended
C22_Witness ==
    /\ last.op = "evaluate"
    /\ last.issued
    /\ resolved.poll
    /\ resolved.data.cpu = N(90)
    /\ Len(resolved.data.graphics) = 1
    /\ last.gpu = N(51)
    /\ \A i \in 1..MaxPolls : polls[i] = IdlePoll
    /\ \E i \in 1..MaxCalls : calls[i].kind = "evaluate" /\ calls[i].pc = "cmd"

(* C23: with overlapping snapshot reads over the thresholds and no cancel, at *)
(* most one shutdown command of the guard exists at any time, and while one    *)
(* exists the guard holds the one incident that issued it.                     *)
C23_OverlappingEvaluationsIssueOnce ==
    /\ Cardinality(ShutdownCalls(calls)) <= 1
    /\ \A i \in ShutdownCalls(calls) :
          /\ config.triggered
          /\ config.triggeredBy = calls[i].message.reason
          /\ config.triggeredTemp = calls[i].message.temp

\* a second evaluate() over the threshold has returned without a command
\* while the command of the first is still to be run by the OS
C23_Witness ==
    /\ last.op = "evaluate"
    /\ ~last.issued
    /\ last.wasTriggered
    /\ config.enabled
    /\ SomeHot(config, last)
    /\ \E i \in 1..MaxCalls : calls[i].kind = "evaluate" /\ calls[i].pc = "cmd"

(* C21: an update, whatever its body, leaves triggered, triggeredAt,          *)
(* triggeredBy and triggeredTemp as they were, adds no field to the config,    *)
(* spawns no command and leaves the shutdown scheduled in the OS, its delay    *)
(* included, as it was.                                                        *)
C21_UpdateFrame ==
    [][last'.op = "update" =>
          /\ Incident(config') = Incident(config)
          /\ DOMAIN config' = DOMAIN config
          /\ os' = os
          /\ calls' = calls]_vars

\* an update carrying triggered: false and a new delay has been answered while
\* Triggered: the incident stands and the OS keeps the delay it was given
C21_Witness ==
    /\ last.op = "update"
    /\ last.status = "200"
    /\ "triggered" \in DOMAIN last.body
    /\ last.body.triggered = Bool(FALSE)
    /\ last.wasTriggered
    /\ config.triggered
    /\ config.triggeredBy # nullStr
    /\ config.shutdownDelay = N(300)
    /\ os.by = "guard"
    /\ os.delay = N(60)

(* C28: in every reachable state triggered is true exactly when triggeredAt,  *)
(* triggeredBy and triggeredTemp are all set and false exactly when all three  *)
(* are null.                                                                   *)
C28_IncidentConsistent ==
    /\ config.triggered <=>
          (config.triggeredAt # null /\ config.triggeredBy # nullStr
           /\ config.triggeredTemp # null)
    /\ ~config.triggered <=>
          (config.triggeredAt = null /\ config.triggeredBy = nullStr
           /\ config.triggeredTemp = null)
    /\ config.triggered => config.triggeredBy # ""

\* a second incident, recorded after a cancel cleared the first, while a
\* cancel is suspended on its command
C28_Witness ==
    /\ config.triggered
    /\ history = "rearmed"
    /\ config.triggeredAt > Epoch
    /\ config.triggeredTemp # null
    /\ AbortCalls(calls) # {}

\* the thresholds of the metrics a reason names
NamedThresholds(cfg, reason) ==
    (IF "cpu" \in Tags(reason) THEN {cfg.cpuThreshold} ELSE {})
    \cup (IF "gpu" \in Tags(reason) THEN {cfg.gpuThreshold} ELSE {})
    \cup (IF "mb" \in Tags(reason) THEN {cfg.mbThreshold} ELSE {})

(* C30: the message of the shutdown command that a trigger has just spawned   *)
(* quotes the threshold of a metric named in triggeredBy, the delay of the     *)
(* policy and the temperature recorded as triggeredTemp.                       *)
C30_MessageQuotesTrippedThreshold ==
    (last.op = "evaluate" /\ last.issued) =>
        \A i \in 1..MaxCalls :
            (calls[i].kind = "evaluate" /\ calls[i].pc = "cmd") =>
                /\ calls[i].message.reason = config.triggeredBy
                /\ calls[i].message.temp = config.triggeredTemp
                /\ calls[i].message.delay = config.shutdownDelay
                /\ calls[i].message.threshold
                      \in NamedThresholds(config, config.triggeredBy)

\* the delay of the claim for the requests it is explicit about: an integer
\* clamped to [0, 300]; 10 for an absent delay and for one that is no number
\* and starts with no digit
ClampedDelay(delay) ==
    IF delay.t = "number"
    THEN IF delay.v < N(0) THEN 0 ELSE IF delay.v > N(300) THEN 300 ELSE delay.v \div 2
    ELSE 10

ExplicitDelay(delay) ==
    \/ delay.t = "number" /\ IsInteger(delay.v)
    \/ delay.t \in {"undefined", "object", "boolean"}
    \/ delay.t = "string" /\ (delay.v = <<>> \/ ~IsDigit(Head(delay.v)))

(* C26: the delay given to `shutdown /s` or `shutdown /r` by the power route  *)
(* is the requested delay clamped to [0, 300], a requested integer within      *)
(* [0, 300], 0 included, being used as it is, and 10 when the delay is absent  *)
(* or not numeric; the response reports the delay the command was given.       *)
C26_PowerDelayClamped ==
    [][/\ (last'.op = "power" /\ last'.status = "pending"
           /\ last'.request.action # Str("cancel")
           /\ ExplicitDelay(last'.request.delay)) =>
             \A i \in 1..MaxCalls :
                 (calls[i] = Idle /\ calls'[i] # Idle) =>
                     calls'[i].delay = ClampedDelay(last'.request.delay)
       /\ (last'.op = "power" /\ last'.status = "200" /\ last'.success) =>
             \A i \in 1..MaxCalls :
                 (calls[i] # Idle /\ calls'[i] = Idle) =>
                     last'.delay = calls[i].delay]_vars

(* C27: the power route spawns a command only for the actions shutdown,       *)
(* reboot and cancel, and answers 400 without a command to any other or        *)
(* missing action; a cancel that was unable to abort because nothing was       *)
(* scheduled is answered 200 with success false, any other failure of a        *)
(* command 500, a command that ran 200 with success true.                      *)
C27_PowerActions ==
    [][/\ (last'.op = "power" /\ last'.status \in {"pending", "400"}) =>
             IF last'.request.action \in {Str("shutdown"), Str("reboot"), Str("cancel")}
             THEN /\ last'.status = "pending"
                  /\ \E i \in 1..MaxCalls :
                        /\ calls[i] = Idle
                        /\ calls'[i] = PowerCall(last'.request, calls'[i].delay)
                        /\ \A j \in 1..MaxCalls \ {i} : calls'[j] = calls[j]
             ELSE /\ last'.status = "400"
                  /\ calls' = calls
                  /\ os' = os
       /\ (\E i \in 1..MaxCalls : calls[i] = Idle /\ calls'[i].kind \in PowerKinds) =>
             (last'.op = "power" /\ last'.status = "pending")
       /\ \A i \in 1..MaxCalls :
             (calls[i].kind \in PowerKinds /\ calls'[i] = Idle) =>
                 /\ last'.op = "power"
                 /\ calls[i].result = "ok" => (last'.status = "200" /\ last'.success)
                 /\ (calls[i].result = "unable" /\ calls[i].kind = "powerCancel") =>
                       (last'.status = "200" /\ ~last'.success)
                 /\ calls[i].result = "err" => last'.status = "500"]_vars

\* a cancel with nothing scheduled has been answered 200 with success false
C27_Witness ==
    /\ last.op = "power"
    /\ last.status = "200"
    /\ ~last.success
    /\ last.cmd = "unable"
    /\ last.request.action = Str("cancel")
    /\ os = NoShutdown

(* C29: the shutdown that the guard has scheduled in the OS is taken off only *)
(* by the `shutdown /a` of the guard's own cancel, not by the cancel action    *)
(* of the power route.                                                         *)
C29_OnlyGuardCancelAborts ==
    [][(os.by = "guard" /\ os'.by # "guard") =>
          \E i \in 1..MaxCalls :
              calls[i].kind = "cancel" /\ calls[i].pc = "cmd" /\ calls'[i].pc = "ret"]_vars

====
